---------------------------- MODULE Spec2Model ----------------------------
(***************************************************************************)
(* A model of the openorganelle dataset catalogue: the coordinate          *)
(* transform handed to neuroglancer, the layer and viewer-state compiler,  *)
(* the Dataset constructor with its tag set (OSet), and the catalogue      *)
(* loader makeDatasets.                                                    *)
(*                                                                         *)
(* Each subsystem has its own specification (SpecTransform, SpecOSet,     *)
(* SpecDataset, SpecLink, SpecCatalog) over its own variables; the         *)
(* variables of the other subsystems stay at Idle.                         *)
(***************************************************************************)
EXTENDS Integers, Sequences, FiniteSets, TLC

VARIABLES
    transform,        \* SpatialTransform handed to SpatialTransformToNeuroglancer
    layerTransform,   \* outcome of the call (NotCalled before it)
    tags,             \* an OSet<ITag>: its map, as the insertion-ordered entries
    live,             \* history: the (value, category) pairs added and not deleted
    readded,          \* history: some add() was given a pair that was in the set
    dsInput,          \* arguments of new Dataset(...): the views and the description
    dataset,          \* outcome of the construction (NotCalled before it)
    checkState,       \* NeuroglancerLink's checkState: volume key -> checked
    view,             \* NeuroglancerLink's view
    linkCall,         \* the call made: the component rendered, or the compiler
    link,             \* outcome of the call (NotCalled before it)
    remote,           \* what the metadata endpoint answers: the index, the entries
    mdPc,             \* where makeDatasets is: start, awaitIndex, awaitAll, returned, rejected
    tasks,            \* the per-dataset promises Promise.all waits for, by position
    mdResult,         \* the map makeDatasets returned (NoResult before, and on rejection)
    shaderInput,      \* arguments of makeShader: the display settings and the sample type
    shaderOut,        \* outcome of the call (NotCalled before it)
    paperViews,       \* DatasetPaper: dataset.views, each with its list of volume keys
    layerCheckState,  \* DatasetPaper: checkStates.layerCheckState, a Map in insertion order
    viewCheckState,   \* DatasetPaper: checkStates.viewCheckState
    paperLink,        \* DatasetPaper: the NeuroglancerLink of the last render
    settleOrder,      \* history: the positions of the per-dataset promises, in the order they settled
    appState,         \* the application state of AppContext: datasets and datasetsLoading
    homePc,           \* where Home's effect is: mounted, loading, done
    homeClosure,      \* the appState Home's effect closed over (the one of the first render)
    slug,             \* DatasetDetails: the key of the route
    detailsView,      \* DatasetDetails: what the last render shows
    paperEvent,       \* history: the last event DatasetPaper handled, with the check states before it
    volumeMeta,       \* the VolumeMeta handed to Volume.fromVolumeMeta
    volumeBuilt,      \* the Volume fromVolumeMeta built
    volumeLayer       \* the layer Volume.toLayer built

transformVars == <<transform, layerTransform>>
osetVars == <<tags, live, readded>>
datasetVars == <<dsInput, dataset>>
linkVars == <<checkState, view, linkCall, link>>
catalogVars == <<remote, mdPc, tasks, mdResult>>
shaderVars == <<shaderInput, shaderOut>>
paperVars == <<paperViews, layerCheckState, viewCheckState, paperLink>>
catalogHistory == <<settleOrder>>
homeVars == <<appState, homePc, homeClosure, slug, detailsView>>
paperHistory == <<paperEvent>>
volumeVars == <<volumeMeta, volumeBuilt, volumeLayer>>
vars == <<transform, layerTransform, tags, live, readded, dsInput, dataset,
          checkState, view, linkCall, link, remote, mdPc, tasks, mdResult,
          shaderInput, shaderOut,
          paperViews, layerCheckState, viewCheckState, paperLink,
          settleOrder,
          appState, homePc, homeClosure, slug, detailsView,
          paperEvent,
          volumeMeta, volumeBuilt, volumeLayer>>

Idle == "idle"
NotCalled == [outcome |-> "notCalled"]

-----------------------------------------------------------------------------
(* Bounds of the model.                                                    *)

MaxScale == 2
MaxTranslate == 1
MaxTagValue == 2
MaxListLen == 2
MaxViews == 2
SpacingSpread == 1
MaxLayers == 2
MaxDatasets == 3
MaxContrast == 1

-----------------------------------------------------------------------------
(* JavaScript values.  A value is a record with a type tag t; n carries a  *)
(* number, s a string.  NumE9(n) is the number n * 1e-9.                   *)

Num(n) == [t |-> "number", n |-> n, s |-> ""]
NumE9(n) == [t |-> "number", n |-> n, s |-> "e-9"]
Str(s) == [t |-> "string", n |-> 0, s |-> s]
Undefined == [t |-> "undefined", n |-> 0, s |-> ""]
Null == [t |-> "null", n |-> 0, s |-> ""]
NaN == [t |-> "NaN", n |-> 0, s |-> ""]
Arr(a) == [t |-> "array", n |-> 0, s |-> "", a |-> a]
\* The number p / 100 (an opacity).
Percent(p) == [t |-> "number", n |-> p, s |-> "%"]

\* Array.prototype.indexOf: the 0-based index of the first match, -1 if none.
indexOf(arr, e) ==
    IF \E i \in DOMAIN arr : arr[i] = e
    THEN (CHOOSE i \in DOMAIN arr :
              /\ arr[i] = e
              /\ \A j \in DOMAIN arr : arr[j] = e => i <= j) - 1
    ELSE -1

\* arr[i] on a JS array of numbers, 0-based: undefined outside the array.
At(arr, i) == IF (i + 1) \in DOMAIN arr THEN Num(arr[i + 1]) ELSE Undefined

\* Math.abs: NaN for undefined and NaN.
MathAbs(v) ==
    IF v.t = "number" THEN Num(IF v.n < 0 THEN 0 - v.n ELSE v.n) ELSE NaN

\* v < 0: false when v converts to NaN (undefined, NaN).
LessThanZero(v) == v.t = "number" /\ v.n < 0

\* 1e-9 * v
Times1e9(v) == IF v.t = "number" THEN NumE9(v.n) ELSE NaN

-----------------------------------------------------------------------------
(* Coordinate transform engine.                                            *)

\* one nanometer, expressed as a scaled meter
nm == <<NumE9(1), "m">>

\* the basis vectors of the coordinate space neuroglancer displays in
outputDimensions == [x |-> nm, y |-> nm, z |-> nm]

\* Mutant: the magnitude of the scale is put on the diagonal.
SpatialTransformToNeuroglancer_ScaleOnDiagonal(tf, outDims) ==
    LET ix == indexOf(tf.axes, "x")
        iy == indexOf(tf.axes, "y")
        iz == indexOf(tf.axes, "z")
    IN [matrix |->
            << <<At(tf.scale, ix), Num(0), Num(0), At(tf.translate, ix)>>,
               <<Num(0), At(tf.scale, iy), Num(0), At(tf.translate, iy)>>,
               <<Num(0), Num(0), At(tf.scale, iz), At(tf.translate, iz)>> >>,
        outputDimensions |-> outDims,
        inputDimensions |->
            [x |-> <<Times1e9(MathAbs(At(tf.scale, ix))), "m">>,
             y |-> <<Times1e9(MathAbs(At(tf.scale, iy))), "m">>,
             z |-> <<Times1e9(MathAbs(At(tf.scale, iz))), "m">>]]

\* Mutant: the input space takes the signed scale (Math.abs dropped).
SpatialTransformToNeuroglancer_NoAbs(tf, outDims) ==
    LET ix == indexOf(tf.axes, "x")
        iy == indexOf(tf.axes, "y")
        iz == indexOf(tf.axes, "z")
        sgn(v) == IF LessThanZero(v) THEN Num(-1) ELSE Num(1)
    IN [matrix |->
            << <<sgn(At(tf.scale, ix)), Num(0), Num(0), At(tf.translate, ix)>>,
               <<Num(0), sgn(At(tf.scale, iy)), Num(0), At(tf.translate, iy)>>,
               <<Num(0), Num(0), sgn(At(tf.scale, iz)), At(tf.translate, iz)>> >>,
        outputDimensions |-> outDims,
        inputDimensions |->
            [x |-> <<Times1e9(At(tf.scale, ix)), "m">>,
             y |-> <<Times1e9(At(tf.scale, iy)), "m">>,
             z |-> <<Times1e9(At(tf.scale, iz)), "m">>]]

SpatialTransformToNeuroglancer(tf, outDims) ==
    LET ix == indexOf(tf.axes, "x")
        iy == indexOf(tf.axes, "y")
        iz == indexOf(tf.axes, "z")
        sgn(v) == IF LessThanZero(v) THEN Num(-1) ELSE Num(1)
    IN [matrix |->
            << <<sgn(At(tf.scale, ix)), Num(0), Num(0), At(tf.translate, ix)>>,
               <<Num(0), sgn(At(tf.scale, iy)), Num(0), At(tf.translate, iy)>>,
               <<Num(0), Num(0), sgn(At(tf.scale, iz)), At(tf.translate, iz)>> >>,
        outputDimensions |-> outDims,
        inputDimensions |->
            [x |-> <<Times1e9(MathAbs(At(tf.scale, ix))), "m">>,
             y |-> <<Times1e9(MathAbs(At(tf.scale, iy))), "m">>,
             z |-> <<Times1e9(MathAbs(At(tf.scale, iz))), "m">>]]

AxisLabels == {"x", "y", "z"}

\* Axis-label lists of volume metadata: every order of x, y, z, and the
\* lists of a two-axis volume, which lack one of the labels.
AxisLists ==
    {a \in UNION {[1..n -> AxisLabels] : n \in 2..3} :
        \A i, j \in DOMAIN a : a[i] = a[j] => i = j}

ScaleValues == (0 - MaxScale)..MaxScale
TranslateValues == 0..MaxTranslate

\* A call of SpatialTransformToNeuroglancer (as makeLayer makes it for a
\* volume's transform): the function has no throw statement and no access
\* that can fail on a transform with axes, scale and translate arrays.
CallSpatialTransformToNeuroglancer ==
    /\ layerTransform = NotCalled
    /\ layerTransform' =
           [outcome |-> "returned",
            value |-> SpatialTransformToNeuroglancer(transform, outputDimensions)]
    /\ UNCHANGED <<transform, osetVars, datasetVars, linkVars, catalogVars, shaderVars, paperVars, catalogHistory, homeVars, paperHistory, volumeVars>>

NextTransform == CallSpatialTransformToNeuroglancer

-----------------------------------------------------------------------------
(* OSet: a set of objects keyed by their JSON text.                        *)

\* JSON.stringify of a property value: NaN is written as null.
JSONValue(v) == IF v.t = "NaN" THEN Null ELSE v

JSONKept(p) == p.v.t # "undefined"

\* JSON.stringify of a tag object literal {value: ..., category: ...}: the
\* properties in their order of creation, a property whose value is
\* undefined left out.
JSONstringify(el) ==
    SelectSeq(<<[k |-> "value", v |-> JSONValue(el.value)],
                [k |-> "category", v |-> Str(el.category)]>>, JSONKept)

\* new OSet(): an empty Map.
OSetNew == <<>>

OSetKeys(set) == [i \in DOMAIN set |-> set[i].key]

\* Mutant: add() appends without looking for the key (an array push).
OSetAdd_Push(set, el) == Append(set, [key |-> JSONstringify(el), element |-> el])

\* add(): Map.set under the JSON key; an existing key keeps its place and
\* takes the new element.
OSetAdd(set, el) ==
    LET k == JSONstringify(el)
    IN IF \E i \in DOMAIN set : set[i].key = k
       THEN [i \in DOMAIN set |->
                IF set[i].key = k THEN [key |-> k, element |-> el] ELSE set[i]]
       ELSE Append(set, [key |-> k, element |-> el])

\* has(): the JSON key is among the keys.
OSetHas(set, el) == \E i \in DOMAIN set : OSetKeys(set)[i] = JSONstringify(el)

\* delete(): Map.delete under the JSON key.
OSetDelete(set, el) ==
    LET k == JSONstringify(el)
        keep(e) == e.key # k
    IN SelectSeq(set, keep)

\* map.size
OSetSize(set) == Len(set)

\* The categories of the tags the set is exercised with.
OSetCategories == {"Sample: Organism", "Sample: Type"}

\* Tag values: strings, and undefined (a field the metadata lacks).
TagStrings == {ToString(i) : i \in 1..MaxTagValue}
TagValues == {Str(s) : s \in TagStrings} \cup {Undefined}

OSetTags == [value : TagValues, category : OSetCategories]

Add(el) ==
    /\ tags' = OSetAdd(tags, el)
    /\ live' = live \cup {<<el.value, el.category>>}
    /\ readded' = (readded \/ <<el.value, el.category>> \in live)
    /\ UNCHANGED <<transformVars, datasetVars, linkVars, catalogVars, shaderVars, paperVars, catalogHistory, homeVars, paperHistory, volumeVars>>

Delete(el) ==
    /\ tags' = OSetDelete(tags, el)
    /\ live' = live \ {<<el.value, el.category>>}
    /\ UNCHANGED <<readded, transformVars, datasetVars, linkVars, catalogVars, shaderVars, paperVars, catalogHistory, homeVars, paperHistory, volumeVars>>

NextOSet ==
    \/ \E el \in OSetTags : Add(el)
    \/ \E el \in OSetTags : Delete(el)

-----------------------------------------------------------------------------
(* Dataset: its views and its tags.                                        *)

resolutionTagThreshold == 6

\* a ?? undefined: null becomes undefined.
OrUndefined(v) == IF v.t \in {"null", "undefined"} THEN Undefined ELSE v

\* ToNumber of a number, null or undefined.
ToNumber(v) ==
    CASE v.t = "number" -> v
      [] v.t = "null" -> Num(0)
      [] OTHER -> NaN

\* Math.min(a, b): NaN as soon as one argument converts to NaN.
MathMin(a, b) ==
    LET x == ToNumber(a)
        y == ToNumber(b)
    IN IF x.t = "NaN" \/ y.t = "NaN" THEN NaN
       ELSE IF x.n <= y.n THEN x ELSE y

\* Number.prototype.toString
NumberToString(v) == IF v.t = "NaN" THEN Str("NaN") ELSE Str(ToString(v.n))

\* axvox <= resolutionTagThreshold
AtMostThreshold(v) ==
    LET x == ToNumber(v) IN x.t = "number" /\ x.n <= resolutionTagThreshold

DefaultView ==
    [name |-> "Default view",
     description |-> "The default view of the data",
     sources |-> <<>>,
     orientation |-> Arr(<<0, 1, 0, 0>>),
     position |-> Undefined,
     scale |-> Undefined]

\* new DatasetView(blob)
DatasetView(blob) ==
    [name |-> blob.name,
     description |-> blob.description,
     sources |-> blob.sources,
     position |-> OrUndefined(blob.position),
     scale |-> OrUndefined(blob.scale),
     orientation |-> OrUndefined(blob.orientation)]

\* Mutant: an empty view list is kept as it is (no default view).
DatasetViews_NoDefault(views) == [i \in DOMAIN views |-> DatasetView(views[i])]

\* The views of a new Dataset: the default view for an empty list, else one
\* DatasetView per input view, in the input order.
DatasetViews(views) ==
    IF Len(views) = 0
    THEN <<DatasetView(DefaultView)>>
    ELSE [i \in DOMAIN views |-> DatasetView(views[i])]

RECURSIVE OSetAddAll(_, _)
\* for (let val of list) { tags.add(...) }, for the tags in their order.
OSetAddAll(set, els) ==
    IF els = <<>> THEN set
    ELSE OSetAddAll(OSetAdd(set, Head(els)), Tail(els))

\* Mutant: only the first entry of a list is made a tag.
TagsOf_FirstOnly(list, category) ==
    IF list = <<>> THEN <<>>
    ELSE <<[value |-> list[1], category |-> category]>>

\* for (let val of list) { tags.add({value: val, category: category}) }:
\* the tags of a list field, in the order of the list.
TagsOf(list, category) ==
    [i \in DOMAIN list |-> [value |-> list[i], category |-> category]]

\* The axial voxel size tag, when gridSpacing.values.z is defined.
AxialTags(values) ==
    IF values.z # Undefined
    THEN <<[value |-> IF AtMostThreshold(values.z)
                      THEN Str("<= " \o ToString(resolutionTagThreshold) \o " nm")
                      ELSE Str("> " \o ToString(resolutionTagThreshold) \o " nm"),
            category |-> "Axial voxel size"]>>
    ELSE <<>>

\* The lateral voxel size tag, when gridSpacing.values.y or .x is defined.
LateralTags(values) ==
    IF values.y # Undefined \/ values.x # Undefined
    THEN <<[value |-> NumberToString(MathMin(values.y, values.x)),
            category |-> "Lateral voxel size"]>>
    ELSE <<>>

\* Dataset.makeTags, over this.description.
makeTags(descr) ==
    OSetAddAll(OSetNew,
        <<[value |-> descr.imaging.institution,
           category |-> "Acquisition institution"]>>
        \o TagsOf(descr.institution, "Contributing institution")
        \o TagsOf(descr.sample.organism, "Sample: Organism")
        \o TagsOf(descr.sample.type, "Sample: Type")
        \o TagsOf(descr.sample.subtype, "Sample: Subtype")
        \o TagsOf(descr.sample.treatment, "Sample: Treatment")
        \o AxialTags(descr.imaging.gridSpacing.values)
        \o LateralTags(descr.imaging.gridSpacing.values)
        \o <<[value |-> descr.softwareAvailability,
              category |-> "Software Availability"]>>)

\* new Dataset(name, space, volumes, description, thumbnailURL, views).
\* views.length throws a TypeError when views is undefined, and makeTags
\* throws one at descr.imaging when the description is undefined.
NewDataset(name, space, volumes, description, thumbnailURL, views) ==
    IF views.t # "array" \/ description = Undefined
    THEN [outcome |-> "threw"]
    ELSE [outcome |-> "returned",
          value |-> [name |-> name,
                     space |-> space,
                     volumes |-> volumes,
                     description |-> description,
                     thumbnailURL |-> thumbnailURL,
                     views |-> DatasetViews(views.a),
                     tags |-> makeTags(description)]]

\* View blobs of a manifest: position, scale and orientation may be given,
\* null or absent.
ViewBlobs ==
    [name : {"view A", "view B"},
     description : {"a view"},
     sources : {<<"k1">>},
     position : {Undefined, Null, Arr(<<1, 2, 3>>)},
     scale : {Null, Num(4)},
     orientation : {Arr(<<1, 0, 0, 0>>)}]

ViewLists == UNION {[1..n -> ViewBlobs] : n \in 0..MaxViews}

\* Grid spacing values around the resolution threshold, or absent.
GridValues ==
    {Undefined} \cup
    {Num(n) : n \in (resolutionTagThreshold - SpacingSpread)
                      ..(resolutionTagThreshold + SpacingSpread)}

TagLists == UNION {[1..n -> {Str(s) : s \in TagStrings}] : n \in 0..MaxListLen}
ShortTagLists == {<<>>, <<Str("1")>>}

Description(inst, org, type, subtype, treatment, grid) ==
    [imaging |-> [institution |-> Str("1"),
                  gridSpacing |-> [values |-> grid]],
     institution |-> inst,
     sample |-> [organism |-> org, type |-> type,
                 subtype |-> subtype, treatment |-> treatment],
     softwareAvailability |-> Str("open")]

DefaultGrid == [x |-> Num(resolutionTagThreshold), y |-> Num(resolutionTagThreshold),
                z |-> Num(resolutionTagThreshold)]

DefaultDescription == Description(<<>>, <<>>, <<>>, <<>>, <<>>, DefaultGrid)

\* The five list fields, one of them any list of up to MaxListLen entries,
\* the others empty or of one entry.
ListChoices ==
    UNION {{[j \in 1..5 |-> IF j = f THEN long ELSE short[j]] :
               long \in TagLists, short \in [1..5 -> ShortTagLists]} : f \in 1..5}

\* Descriptions: every grid spacing with empty lists, and every choice of
\* the lists with the default grid spacing.
Descriptions ==
    {Description(<<>>, <<>>, <<>>, <<>>, <<>>, g) :
        g \in [x : GridValues, y : GridValues, z : GridValues]}
    \cup
    {Description(l[1], l[2], l[3], l[4], l[5], DefaultGrid) : l \in ListChoices}

\* Arguments of the constructor: the views vary with the default
\* description, the description varies with one view, and the two
\* malformed manifests (no views, no metadata).
DatasetInputs ==
    {[views |-> Arr(v), description |-> DefaultDescription] : v \in ViewLists}
    \cup
    {[views |-> Arr(<<>>), description |-> d] : d \in Descriptions}
    \cup
    {[views |-> Undefined, description |-> DefaultDescription],
     [views |-> Arr(<<>>), description |-> Undefined]}

\* The volumes of the datasets of the model: their keys, in the insertion
\* order of the volumes map.
VolumeKeys == <<"k1", "k2", "k3">>

ConstructDataset ==
    /\ dataset = NotCalled
    /\ dataset' = NewDataset("ds", outputDimensions, VolumeKeys,
                             dsInput.description, "thumbnail",
                             dsInput.views)
    /\ UNCHANGED <<dsInput, transformVars, osetVars, linkVars, catalogVars, shaderVars, paperVars, catalogHistory, homeVars, paperHistory, volumeVars>>

NextDataset == ConstructDataset

-----------------------------------------------------------------------------
(* Layers and the viewer state.                                            *)

\* makeShader: the shader text of a scalar volume (with its parameters), the
\* empty text of a label volume, undefined otherwise.  Reading
\* contrastLimits.min throws a TypeError when the display settings have no
\* contrastLimits, or a null one.
makeShader(shaderArgs, sampleType) ==
    CASE sampleType = "scalar" ->
            IF shaderArgs.contrastLimits \in {Undefined, Null}
            THEN [outcome |-> "threw"]
            ELSE [outcome |-> "returned",
                  value |-> [t |-> "string", n |-> 0,
                             s |-> "#uicontrol invlerp normalized",
                             range |-> <<shaderArgs.contrastLimits.start,
                                         shaderArgs.contrastLimits.end>>,
                             window |-> <<shaderArgs.contrastLimits.min,
                                          shaderArgs.contrastLimits.max>>,
                             invertColormap |-> IF shaderArgs.invertLUT THEN 1 ELSE 0,
                             color |-> shaderArgs.color]]
      [] sampleType = "label" -> [outcome |-> "returned", value |-> Str("")]
      [] OTHER -> [outcome |-> "returned", value |-> Undefined]

\* The data source of a layer: its url with the transform.
LayerSource(url, tf) ==
    [url |-> url,
     transform |-> SpatialTransformToNeuroglancer(tf, outputDimensions),
     CoordinateSpaceTransform |-> SpatialTransformToNeuroglancer(tf, outputDimensions)]

\* makeLayer: an ImageLayer (opacity 0.75, additive) with the volume's
\* shader, a SegmentationLayer (which is given no opacity) over the source
\* and the subsources, undefined for any other layer type.
makeLayer(volume, layerType) ==
    LET source == LayerSource(volume.format \o "://" \o volume.url, volume.transform)
        subsources == [i \in DOMAIN volume.subsources |->
                          LayerSource("precomputed://" \o volume.subsources[i].url,
                                      volume.subsources[i].transform)]
        color == OrUndefined(volume.displaySettings.color)
        shader == makeShader(volume.displaySettings, volume.sampleType)
    IN CASE layerType = "image" ->
               IF shader.outcome = "threw"
               THEN [outcome |-> "threw"]
               ELSE [outcome |-> "returned",
                     value |-> [type |-> "image",
                                tab |-> "rendering",
                                name |-> volume.name,
                                source |-> source,
                                opacity |-> Percent(75),
                                blend |-> "additive",
                                shader |-> shader.value]]
         [] layerType = "segmentation" ->
               [outcome |-> "returned",
                value |-> [type |-> "segmentation",
                           tab |-> "source",
                           pick |-> TRUE,
                           name |-> volume.name,
                           source |-> IF Len(subsources) > 0
                                      THEN <<source>> \o subsources
                                      ELSE source,
                           segments |-> IF Len(subsources) > 0
                                        THEN volume.subsources[1].ids
                                        ELSE Undefined,
                           hideSegmentZero |-> TRUE,
                           segmentDefaultColor |-> color,
                           opacity |-> Undefined]]
         [] OTHER -> [outcome |-> "returned", value |-> Undefined]

\* if (crossSectionScale): false for undefined, null, NaN and 0.
Truthy(v) ==
    CASE v.t \in {"undefined", "null", "NaN"} -> FALSE
      [] v.t = "number" -> v.n # 0
      [] v.t = "string" -> v.s # ""
      [] OTHER -> TRUE

\* Mutant: the last layer, not the first, is the selected layer.
ViewerStateOf_LastLayerSelected(layers, viewerPosition, crossSectionScale, crossSectionOrientation) ==
    [outcome |-> "returned",
     vState |-> [dimensions |-> outputDimensions,
                 position |-> viewerPosition,
                 layers |-> layers,
                 layout |-> "4panel",
                 crossSectionScale |->
                     IF Truthy(crossSectionScale) THEN crossSectionScale ELSE Num(50),
                 crossSectionOrientation |-> crossSectionOrientation,
                 projectionScale |-> Num(65536),
                 projectionOrientation |-> crossSectionOrientation,
                 showAxisLines |-> TRUE,
                 showScaleBar |-> TRUE,
                 showDefaultAnnotations |-> TRUE,
                 crossSectionBackgroundColor |-> "black",
                 projectionBackgroundColor |-> "black",
                 selectedLayer |-> [layer |-> layers[Len(layers)].name, visible |-> TRUE]]]

\* The viewer state over the layers; the fragment returned is
\* encodeFragment(urlSafeStringify(vState)) of the library.
ViewerStateOf(layers, viewerPosition, crossSectionScale, crossSectionOrientation) ==
    [outcome |-> "returned",
     vState |-> [dimensions |-> outputDimensions,
                 position |-> viewerPosition,
                 layers |-> layers,
                 layout |-> "4panel",
                 crossSectionScale |->
                     IF Truthy(crossSectionScale) THEN crossSectionScale ELSE Num(50),
                 crossSectionOrientation |-> crossSectionOrientation,
                 projectionScale |-> Num(65536),
                 projectionOrientation |-> crossSectionOrientation,
                 showAxisLines |-> TRUE,
                 showScaleBar |-> TRUE,
                 showDefaultAnnotations |-> TRUE,
                 crossSectionBackgroundColor |-> "black",
                 projectionBackgroundColor |-> "black",
                 selectedLayer |-> [layer |-> layers[1].name, visible |-> TRUE]]]

\* Mutant: the selected layer is read with optional chaining, so an empty
\* layer list gives a viewer state whose selected layer has no name.
makeNeuroglancerViewerState_NoRefusal(layers, viewerPosition, crossSectionScale, crossSectionOrientation) ==
    IF Len(layers) = 0
    THEN [outcome |-> "returned",
          vState |-> [dimensions |-> outputDimensions,
                      position |-> viewerPosition,
                      layers |-> layers,
                      selectedLayer |-> [layer |-> Undefined, visible |-> TRUE]]]
    ELSE ViewerStateOf(IF Len(layers) = 1 /\ layers[1].type = "image"
                       THEN <<[layers[1] EXCEPT !.opacity = Percent(100)]>>
                       ELSE layers,
                       viewerPosition, crossSectionScale, crossSectionOrientation)

\* Mutant: the opacity of a single layer is set whatever its kind.
makeNeuroglancerViewerState_AnyKind(layers, viewerPosition, crossSectionScale, crossSectionOrientation) ==
    IF Len(layers) = 0
    THEN [outcome |-> "threw"]
    ELSE ViewerStateOf(IF Len(layers) = 1
                       THEN <<[layers[1] EXCEPT !.opacity = Percent(100)]>>
                       ELSE layers,
                       viewerPosition, crossSectionScale, crossSectionOrientation)

\* Dataset.makeNeuroglancerViewerState: a single image layer gets opacity
\* 1.0; layers[0]!.name throws a TypeError on an empty list.
makeNeuroglancerViewerState(layers, viewerPosition, crossSectionScale, crossSectionOrientation) ==
    IF Len(layers) = 0
    THEN [outcome |-> "threw"]
    ELSE ViewerStateOf(IF Len(layers) = 1 /\ layers[1].type = "image"
                       THEN <<[layers[1] EXCEPT !.opacity = Percent(100)]>>
                       ELSE layers,
                       viewerPosition, crossSectionScale, crossSectionOrientation)

\* The transforms of the volumes of the model.
VolumeTransform == [axes |-> <<"z", "y", "x">>, scale |-> <<2, -1, 1>>,
                    translate |-> <<0, 1, 0>>]

ScalarDisplay == [contrastLimits |-> [min |-> 0, max |-> 1, start |-> 0, end |-> 1],
                  invertLUT |-> FALSE, color |-> Str("white")]
LabelDisplay == [contrastLimits |-> Undefined, invertLUT |-> FALSE, color |-> Null]

\* The volumes map of the dataset a link is made for: an EM volume, a
\* segmentation with a mesh subsource, and a prediction.
Volumes ==
    [k \in {VolumeKeys[i] : i \in DOMAIN VolumeKeys} |->
        CASE k = "k1" ->
                [url |-> "s3://b/em", name |-> Str("em"), transform |-> VolumeTransform,
                 contentType |-> "em", sampleType |-> "scalar", format |-> "n5",
                 displaySettings |-> ScalarDisplay, subsources |-> <<>>]
          [] k = "k2" ->
                [url |-> "s3://b/seg", name |-> Str("seg"), transform |-> VolumeTransform,
                 contentType |-> "segmentation", sampleType |-> "label",
                 format |-> "n5", displaySettings |-> LabelDisplay,
                 subsources |-> <<[url |-> "s3://b/mesh", transform |-> VolumeTransform,
                                   ids |-> Arr(<<1, 2>>)]>>]
          [] OTHER ->
                [url |-> "s3://b/pred", name |-> Str("pred"), transform |-> VolumeTransform,
                 contentType |-> "prediction", sampleType |-> "scalar",
                 format |-> "n5", displaySettings |-> ScalarDisplay,
                 subsources |-> <<>>]]

\* The layers the compiler is called with: every volume as an image or a
\* segmentation layer, in lists of up to MaxLayers.
Layers ==
    {makeLayer(Volumes[k], ty).value :
        k \in DOMAIN Volumes, ty \in {"image", "segmentation"}}

LayerLists == UNION {[1..n -> Layers] : n \in 0..MaxLayers}

\* The views of the dataset a link is made for.
LinkViews ==
    {DatasetView(DefaultView),
     DatasetView([name |-> "view A", description |-> "a view", sources |-> <<"k1">>,
                  position |-> Arr(<<1, 2, 3>>), scale |-> Num(4),
                  orientation |-> Null]),
     DatasetView([name |-> "view B", description |-> "a view", sources |-> <<"k2">>,
                  position |-> Null, scale |-> Num(0),
                  orientation |-> Arr(<<1, 0, 0, 0>>)])}

\* The layer type the link gives a volume: its content type decides
\* between a segmentation and an image layer.
LayerTypeOf(volume) ==
    IF volume.contentType = "segmentation" THEN "segmentation" ELSE "image"

RECURSIVE CheckedKeys(_, _)
\* dataset.volumes.forEach: the keys whose check state is true, in the
\* order of the volumes map.
CheckedKeys(keys, state) ==
    IF keys = <<>> THEN <<>>
    ELSE (IF Head(keys) \in DOMAIN state /\ state[Head(keys)]
          THEN <<Head(keys)>> ELSE <<>>) \o CheckedKeys(Tail(keys), state)

\* The compilation of the checked volumes: one layer per key, then the
\* viewer state with the camera of the view.
CompileLink(volumeKeys, localView) ==
    LET made == [i \in DOMAIN volumeKeys |->
                    makeLayer(Volumes[volumeKeys[i]], LayerTypeOf(Volumes[volumeKeys[i]]))]
    IN IF \E i \in DOMAIN made : made[i].outcome = "threw"
       THEN [outcome |-> "threw"]
       ELSE makeNeuroglancerViewerState([i \in DOMAIN made |-> made[i].value],
                                        localView.position, localView.scale,
                                        localView.orientation)

\* NeuroglancerLink rendered: "No layers selected" when no volume is
\* checked, else the button whose href holds the compiled viewer state.
NeuroglancerLink ==
    /\ link = NotCalled
    /\ linkCall' = [kind |-> "NeuroglancerLink",
                    volumeKeys |-> CheckedKeys(VolumeKeys, checkState)]
    /\ link' = IF Len(CheckedKeys(VolumeKeys, checkState)) = 0
               THEN [outcome |-> "noLayersSelected"]
               ELSE CompileLink(CheckedKeys(VolumeKeys, checkState), view)
    /\ UNCHANGED <<checkState, view, transformVars, osetVars, datasetVars, catalogVars, shaderVars, paperVars, catalogHistory, homeVars, paperHistory, volumeVars>>

\* Dataset.makeNeuroglancerViewerState called with a list of layers and the
\* camera of the view.
CallMakeNeuroglancerViewerState ==
    /\ link = NotCalled
    /\ \E layers \in LayerLists :
           /\ linkCall' = [kind |-> "makeNeuroglancerViewerState", layers |-> layers]
           /\ link' = makeNeuroglancerViewerState(layers, view.position, view.scale,
                                                  view.orientation)
    /\ UNCHANGED <<checkState, view, transformVars, osetVars, datasetVars, catalogVars, shaderVars, paperVars, catalogHistory, homeVars, paperHistory, volumeVars>>

NextLink ==
    \/ NeuroglancerLink
    \/ CallMakeNeuroglancerViewerState

-----------------------------------------------------------------------------
(* makeShader called on its own.                                           *)

\* The sample types of a volume: the two makeShader has a case for, and one
\* it has none for.
SampleTypes == {"scalar", "label", "geometry"}

ContrastValues == 0..MaxContrast

\* The display settings of a volume as the manifest JSON gives them:
\* contrastLimits with its four numbers, null or absent; invertLUT; a color
\* or null.
DisplaySettingsValues ==
    [contrastLimits : [min : ContrastValues, max : ContrastValues,
                       start : ContrastValues, end : ContrastValues]
                      \cup {Undefined, Null},
     invertLUT : BOOLEAN,
     color : {Str("white"), Null}]

\* makeShader(shaderArgs, sampleType), as makeLayer calls it for an image
\* layer.
CallMakeShader ==
    /\ shaderOut = NotCalled
    /\ shaderOut' = makeShader(shaderInput.shaderArgs, shaderInput.sampleType)
    /\ UNCHANGED <<shaderInput, transformVars, osetVars, datasetVars, linkVars, catalogVars, paperVars, catalogHistory, homeVars, paperHistory, volumeVars>>

NextShader == CallMakeShader

-----------------------------------------------------------------------------
(* makeDatasets: the catalogue loader.                                     *)

NoResult == [outcome |-> "none"]

\* What API.get(dataset_key) can deliver for a dataset: a rejection, a
\* manifest without views (the Dataset constructor throws on it), or a
\* well-formed manifest, without or with a view.
EntryKinds == {"fetchFails", "malformed", "plain", "withView"}

ManifestOf(kind) ==
    [sources |-> VolumeKeys,
     metadata |-> DefaultDescription,
     views |-> CASE kind = "malformed" -> Undefined
                 [] kind = "withView" ->
                        Arr(<<[name |-> "view A", description |-> "a view",
                               sources |-> <<"k1">>, position |-> Null,
                               scale |-> Num(4), orientation |-> Undefined]>>)
                 [] OTHER -> Arr(<<>>)]

\* Object.keys(index.datasets): the keys of the index, in their order.
DatasetKey(i) == "d" \o ToString(i)

\* The body of the async function mapped over the keys: await API.get, then
\* build the entry [dataset_key, new Dataset(...)].  A rejected get and a
\* throwing constructor both reject the promise of the entry.
EntryPromise(key, kind) ==
    IF kind = "fetchFails"
    THEN [status |-> "rejected"]
    ELSE LET made == NewDataset(key, outputDimensions, ManifestOf(kind).sources,
                                ManifestOf(kind).metadata, "thumbnail",
                                ManifestOf(kind).views)
         IN IF made.outcome = "threw"
            THEN [status |-> "rejected"]
            ELSE [status |-> "fulfilled", value |-> <<key, made.value>>]

\* Mutant: fulfilled as soon as one promise is, with the values of the
\* promises fulfilled so far.
PromiseAll_FulfilledSoFar(ps) ==
    LET done(p) == p.status = "fulfilled"
        sel == SelectSeq(ps, done)
    IN IF \E i \in DOMAIN ps : ps[i].status = "rejected"
       THEN [status |-> "rejected"]
       ELSE IF sel # <<>> \/ ps = <<>>
            THEN [status |-> "fulfilled", value |-> [i \in DOMAIN sel |-> sel[i].value]]
            ELSE [status |-> "pending"]

\* Promise.all over the promises: rejected once one of them is, fulfilled
\* with the values in the order of the promises once all of them are.
PromiseAll(ps) ==
    IF \E i \in DOMAIN ps : ps[i].status = "rejected"
    THEN [status |-> "rejected"]
    ELSE IF \A i \in DOMAIN ps : ps[i].status = "fulfilled"
         THEN [status |-> "fulfilled", value |-> [i \in DOMAIN ps |-> ps[i].value]]
         ELSE [status |-> "pending"]

RECURSIVE NewMap(_)
\* new Map(entries): the entries in their order, a later entry of the same
\* key taking the place of the earlier one.
NewMap(entries) ==
    IF entries = <<>> THEN <<>>
    ELSE LET init == NewMap(SubSeq(entries, 1, Len(entries) - 1))
             last == entries[Len(entries)]
         IN IF \E i \in DOMAIN init : init[i][1] = last[1]
            THEN [i \in DOMAIN init |-> IF init[i][1] = last[1] THEN last ELSE init[i]]
            ELSE Append(init, last)

MapKeys(map) == {map[i][1] : i \in DOMAIN map}

\* Mutant: the catch block of the index fetch throws the error again.
IndexRejected_Rethrow(datasets) == [pc |-> "rejected", result |-> NoResult]

\* catch (error) { console.log(...); return datasets; }
IndexRejected(datasets) == [pc |-> "returned", result |-> datasets]

\* makeDatasets(metadataEndpoint) called: the API object and the empty map
\* are made, and the function waits for API.index.
CallMakeDatasets ==
    /\ mdPc = "start"
    /\ mdPc' = "awaitIndex"
    /\ UNCHANGED <<remote, tasks, mdResult,
                   transformVars, osetVars, datasetVars, linkVars, shaderVars, paperVars, catalogHistory, homeVars, paperHistory, volumeVars>>

\* API.index settles.  Rejected: the empty map is returned.  Fulfilled: the
\* async function is started for every key of the index, and the function
\* waits for Promise.all of them.
IndexSettles ==
    /\ mdPc = "awaitIndex"
    /\ \/ /\ remote.index = "fails"
          /\ mdPc' = IndexRejected(NewMap(<<>>)).pc
          /\ mdResult' = IndexRejected(NewMap(<<>>)).result
          /\ UNCHANGED tasks
       \/ /\ remote.index = "ok"
          /\ mdPc' = "awaitAll"
          /\ tasks' = [i \in DOMAIN remote.entries |-> [status |-> "pending"]]
          /\ UNCHANGED mdResult
    /\ UNCHANGED <<remote, transformVars, osetVars, datasetVars, linkVars, shaderVars, paperVars, catalogHistory, homeVars, paperHistory, volumeVars>>

\* API.get of one dataset settles and the async function of its key runs to
\* its end.  The first rejection rejects Promise.all, and with it
\* makeDatasets: nothing catches it.  The other promises settle on.
EntrySettles(i) ==
    /\ mdPc \in {"awaitAll", "rejected"}
    /\ i \in DOMAIN tasks
    /\ tasks[i].status = "pending"
    /\ tasks' = [tasks EXCEPT ![i] = EntryPromise(DatasetKey(i), remote.entries[i])]
    /\ settleOrder' = Append(settleOrder, i)
    /\ mdPc' = IF mdPc = "awaitAll" /\ PromiseAll(tasks').status = "rejected"
               THEN "rejected" ELSE mdPc
    /\ UNCHANGED <<remote, mdResult,
                   transformVars, osetVars, datasetVars, linkVars, shaderVars, paperVars, homeVars, paperHistory, volumeVars>>

\* Promise.all is fulfilled: datasets = new Map(entries); return datasets.
AllSettled ==
    /\ mdPc = "awaitAll"
    /\ PromiseAll(tasks).status = "fulfilled"
    /\ mdPc' = "returned"
    /\ mdResult' = NewMap(PromiseAll(tasks).value)
    /\ UNCHANGED <<remote, tasks,
                   transformVars, osetVars, datasetVars, linkVars, shaderVars, paperVars, catalogHistory, homeVars, paperHistory, volumeVars>>

NextCatalog ==
    \/ CallMakeDatasets
    \/ IndexSettles
    \/ \E i \in 1..MaxDatasets : EntrySettles(i)
    \/ AllSettled

\* The answers of the endpoint: the index fetch fails, or the index lists
\* up to MaxDatasets datasets, each with its own answer.
Remotes ==
    {[index |-> "fails", entries |-> <<>>]}
    \cup
    {[index |-> "ok", entries |-> e] :
        e \in UNION {[1..n -> EntryKinds] : n \in 0..MaxDatasets}}

-----------------------------------------------------------------------------
(* DatasetPaper: the layer and view check boxes, and the link rendered     *)
(* from them.                                                              *)

\* Map.prototype.set on a Map kept as its entries in insertion order: an
\* existing key keeps its place, a new key goes to the end.
MapSet(map, k, v) ==
    IF \E i \in DOMAIN map : map[i][1] = k
    THEN [i \in DOMAIN map |-> IF map[i][1] = k THEN <<k, v>> ELSE map[i]]
    ELSE Append(map, <<k, v>>)

\* Mutant: only the first key of the list is set.
MapSetAll_HeadOnly(map, keys, v) ==
    IF keys = <<>> THEN map ELSE MapSet(map, Head(keys), v)

RECURSIVE MapSetAll(_, _, _)
\* keys.map(k => map.set(k, v)), for the keys in their order.
MapSetAll(map, keys, v) ==
    IF keys = <<>> THEN map
    ELSE MapSetAll(MapSet(map, Head(keys), v), Tail(keys), v)

\* The Map as a function of its keys (what Map.prototype.get reads).
MapFunction(map) ==
    [k \in MapKeys(map) |-> map[CHOOSE i \in DOMAIN map : map[i][1] = k][2]]

\* Array.prototype.includes
Includes(arr, e) == \E i \in DOMAIN arr : arr[i] = e

\* Array.prototype.findIndex(a => a), 0-based; -1 if none.
FindIndexTrue(arr) ==
    IF \E i \in DOMAIN arr : arr[i]
    THEN (CHOOSE i \in DOMAIN arr : arr[i] /\ \A j \in DOMAIN arr : arr[j] => i <= j) - 1
    ELSE -1

\* Mutant: the keys are collected in the reverse of the volumes' order.
LinkVolumeKeys_Reversed(volumeKeys, state) ==
    LET checked(k) == k \in MapKeys(state) /\ MapFunction(state)[k]
        sel == SelectSeq(volumeKeys, checked)
    IN [i \in 1..Len(sel) |-> sel[Len(sel) + 1 - i]]

\* Mutant: the keys are collected from the check state itself, not from
\* the volumes of the dataset.
LinkVolumeKeys_OfSelection(volumeKeys, state) ==
    LET checked(e) == e[2]
        sel == SelectSeq(state, checked)
    IN [i \in 1..Len(sel) |-> sel[i][1]]

\* NeuroglancerLink: local_view.volumeKeys, the keys of dataset.volumes
\* (in the order of that Map) whose check state is true.
LinkVolumeKeys(volumeKeys, state) == CheckedKeys(volumeKeys, MapFunction(state))

\* The key lists of the views of a dataset: empty, in and out of the order
\* of the volumes, with a repeated key, and with a key ("k9") that the
\* volumes of the dataset lack.
ViewKeyLists ==
    {<<>>, <<"k1">>, <<"k3", "k1">>, <<"k2", "k2">>, <<"k9">>, <<"k9", "k2">>}

PaperView(keys) ==
    DatasetView([name |-> "view", description |-> "a view", sources |-> keys,
                 position |-> Null, scale |-> Num(4), orientation |-> Null])

\* The views of the dataset of the paper: one to MaxViews views.
PaperViewLists ==
    UNION {[1..n -> {PaperView(keys) : keys \in ViewKeyLists}] : n \in 1..MaxViews}

\* layerCheckStateInit: every key of dataset.volumes, checked when the
\* first view lists it.
LayerCheckStateInit(volumeKeys, views) ==
    NewMap([i \in DOMAIN volumeKeys |->
               <<volumeKeys[i], Includes(views[1].sources, volumeKeys[i])>>])

\* Mutant: every view starts selected.
ViewCheckStateInit_AllSelected(views) == [i \in DOMAIN views |-> TRUE]

\* viewCheckStateInit: the first view is selected.
ViewCheckStateInit(views) == [i \in DOMAIN views |-> i = 1]

\* The NeuroglancerLink of a render of DatasetPaper: the check state and
\* the view it is given, the keys it collects, and what it shows.  A key
\* that dataset.volumes lacks has no volume to make a layer from.
RenderLink(views, layerState, viewState) ==
    LET keys == LinkVolumeKeys(VolumeKeys, layerState)
        index == FindIndexTrue(viewState)
        v == IF index + 1 \in DOMAIN views THEN views[index + 1] ELSE Undefined
    IN [checkState |-> layerState,
        view |-> v,
        volumeKeys |-> keys,
        result |-> IF Len(keys) = 0 THEN [outcome |-> "noLayersSelected"]
                   ELSE IF \E i \in DOMAIN keys : keys[i] \notin DOMAIN Volumes
                        THEN [outcome |-> "threw"]
                        ELSE CompileLink(keys, v)]

\* history: the event a handler was called with (event.target.name and
\* event.target.checked) and the check states held when it was called.
PaperEvent(handler, name, checked) ==
    [handler |-> handler, name |-> name, checked |-> checked,
     layerCheckState |-> layerCheckState, viewCheckState |-> viewCheckState]

\* handleLayerChange: the Map of the state is itself changed by set(); the
\* state is replaced, and the paper rendered again, unless every box would
\* be unchecked.
HandleLayerChange(name, checked) ==
    /\ layerCheckState' = MapSet(layerCheckState, name, checked)
    /\ paperLink' =
           LET newCheckState == MapSet(layerCheckState, name, checked)
           IN IF \A i \in DOMAIN newCheckState : ~newCheckState[i][2]
              THEN paperLink
              ELSE RenderLink(paperViews, newCheckState, viewCheckState)
    /\ paperEvent' = PaperEvent("handleLayerChange", name, checked)
    /\ UNCHANGED <<paperViews, viewCheckState, transformVars, osetVars, datasetVars, linkVars, catalogVars, shaderVars, catalogHistory, homeVars, volumeVars>>

\* handleViewChange: only a box being checked is handled; the view of that
\* box becomes the only selected one, and the layer boxes are set to the
\* keys of that view.
HandleViewChange(index, checked) ==
    /\ index \in 0..(Len(paperViews) - 1)
    /\ IF checked
       THEN LET newCheckState == [i \in DOMAIN viewCheckState |-> i = index + 1]
                cleared == [i \in DOMAIN layerCheckState |->
                               <<layerCheckState[i][1], FALSE>>]
                newLayerState ==
                    MapSetAll(cleared,
                              paperViews[FindIndexTrue(newCheckState) + 1].sources, TRUE)
            IN /\ viewCheckState' = newCheckState
               /\ layerCheckState' = newLayerState
               /\ paperLink' = RenderLink(paperViews, newLayerState, newCheckState)
       ELSE UNCHANGED <<viewCheckState, layerCheckState, paperLink, volumeVars>>
    /\ paperEvent' = PaperEvent("handleViewChange", index, checked)
    /\ UNCHANGED <<paperViews, transformVars, osetVars, datasetVars, linkVars, catalogVars, shaderVars, catalogHistory, homeVars, volumeVars>>

NextPaper ==
    \/ \E i \in DOMAIN VolumeKeys, checked \in BOOLEAN :
           HandleLayerChange(VolumeKeys[i], checked)
    \/ \E index \in 0..(MaxViews - 1), checked \in BOOLEAN :
           HandleViewChange(index, checked)

-----------------------------------------------------------------------------
(* Home: the catalogue loaded into the application state, and              *)
(* DatasetDetails reading it.                                              *)

\* Mutant: the detail view is shown for any key once loading is over.
DatasetDetails_NoNotFound(state, key) ==
    IF state.datasetsLoading THEN "loading" ELSE "detail"

\* DatasetDetails: the skeletons while datasetsLoading, the 404 text when
\* datasets.get(slug) is undefined, else the DatasetPaper of the key.
DatasetDetails(state, key) ==
    IF state.datasetsLoading THEN "loading"
    ELSE IF key \notin MapKeys(state.datasets) THEN "notFound"
    ELSE "detail"

\* setAppState({ ...appState, datasetsLoading: true })
LoadingState(state) == [state EXCEPT !.datasetsLoading = TRUE]

\* Mutant: the map is put in the state and datasetsLoading is left set.
LoadedState_MapOnly(state, ds) ==
    [state EXCEPT !.datasets = ds, !.datasetsLoading = TRUE]

\* setAppState({ ...appState, datasets: ds, datasetsLoading: false })
LoadedState(state, ds) ==
    [state EXCEPT !.datasets = ds, !.datasetsLoading = FALSE]

\* The maps the application state can hold before a load: the empty map,
\* or the map of an earlier load (one dataset, "d0").
PreviousMaps ==
    {NewMap(<<>>), NewMap(<<EntryPromise("d0", "plain").value>>)}

\* The keys a dataset-detail route can ask for: one of an earlier load, one
\* of the index, one of no dataset.
Slugs == {"d0", DatasetKey(1), "d9"}

\* Home's effect, run after the first render: the state is marked loading
\* and makeDatasets is called (it runs to its await of API.index).
HomeEffect ==
    /\ homePc = "mounted"
    /\ mdPc = "start"
    /\ appState' = LoadingState(homeClosure)
    /\ detailsView' = DatasetDetails(LoadingState(homeClosure), slug)
    /\ mdPc' = "awaitIndex"
    /\ homePc' = "loading"
    /\ UNCHANGED <<homeClosure, slug, remote, tasks, mdResult, settleOrder, transformVars, osetVars, datasetVars, linkVars, shaderVars, paperVars, paperHistory, volumeVars>>

\* The then-callback of the effect, run once makeDatasets has returned its
\* map: the map and datasetsLoading: false are set in one setAppState, over
\* the appState the effect closed over.  A rejected makeDatasets never
\* runs it.
HomeThen ==
    /\ homePc = "loading"
    /\ mdPc = "returned"
    /\ appState' = LoadedState(homeClosure, mdResult)
    /\ detailsView' = DatasetDetails(LoadedState(homeClosure, mdResult), slug)
    /\ homePc' = "done"
    /\ UNCHANGED <<homeClosure, slug, catalogVars, settleOrder, transformVars, osetVars, datasetVars, linkVars, shaderVars, paperVars, paperHistory, volumeVars>>

\* Another consumer of AppContext changes a field Home does not write,
\* while the load runs: setAppState with webGL2Enabled changed, over the
\* state that consumer reads.  The paper of the route is rendered again.
OtherSetAppState(enabled) ==
    /\ homePc = "loading"
    /\ appState.webGL2Enabled = homeClosure.webGL2Enabled
    /\ enabled # appState.webGL2Enabled
    /\ appState' = [appState EXCEPT !.webGL2Enabled = enabled]
    /\ detailsView' = DatasetDetails([appState EXCEPT !.webGL2Enabled = enabled], slug)
    /\ UNCHANGED <<homePc, homeClosure, slug, catalogVars, settleOrder, transformVars, osetVars, datasetVars, linkVars, shaderVars, paperVars, paperHistory, volumeVars>>

NextHome ==
    \/ HomeEffect
    \/ \E enabled \in BOOLEAN : OtherSetAppState(enabled)
    \/ IndexSettles
    \/ \E i \in 1..MaxDatasets : EntrySettles(i)
    \/ AllSettled
    \/ HomeThen

-----------------------------------------------------------------------------
(* Volume (the older metadata reader): fromVolumeMeta and toLayer.         *)

\* The axis order of the viewer: x, y, z.
axisOrder == [x |-> 0, y |-> 1, z |-> 2]

\* reorder = (arg) => axisIndices.map(v => arg[v])  (arrays are 0-based in
\* the source, 1-based here).
reorder(axisIndices, arg) ==
    [i \in DOMAIN axisIndices |-> arg[axisIndices[i] + 1]]

\* Volume.fromVolumeMeta, for the fields it reorders: axisIndices is
\* axes.map(v => axisOrder.get(v)).
fromVolumeMeta(meta) ==
    LET axisIndices == [i \in DOMAIN meta.transform.axes |->
                           axisOrder[meta.transform.axes[i]]]
    IN [dimensions |-> reorder(axisIndices, meta.dimensions),
        origin |-> reorder(axisIndices, meta.transform.translate),
        gridSpacing |-> reorder(axisIndices, meta.transform.scale),
        unit |-> reorder(axisIndices, meta.transform.units)[1]]

\* Volume.toLayer, for the transform of the layer source: position 0 of
\* gridSpacing and origin is read as x, position 1 as y, position 2 as z.
toLayer(vol) ==
    [inputDimensions |-> [x |-> <<NumE9(vol.gridSpacing[1]), "m">>,
                          y |-> <<NumE9(vol.gridSpacing[2]), "m">>,
                          z |-> <<NumE9(vol.gridSpacing[3]), "m">>],
     matrix |-> <<<<1, 0, 0, vol.origin[1]>>,
                  <<0, 1, 0, vol.origin[2]>>,
                  <<0, 0, 1, vol.origin[3]>>>>]

\* The orders of the labels x, y, z a volume's metadata can list.
AxisPermutations ==
    {a \in [1..3 -> AxisLabels] : \A i, j \in 1..3 : a[i] = a[j] => i = j}

\* Array sizes of a volume, one per listed axis, all different.
DimensionLists == {<<d, d + 1, d + 2>> : d \in 1..MaxScale}

CallFromVolumeMeta ==
    /\ volumeBuilt = NotCalled
    /\ volumeBuilt' = [outcome |-> "returned", value |-> fromVolumeMeta(volumeMeta)]
    /\ UNCHANGED <<volumeMeta, volumeLayer, transformVars, osetVars, datasetVars, linkVars, catalogVars, shaderVars, paperVars, catalogHistory, homeVars, paperHistory>>

CallToLayer ==
    /\ volumeBuilt # NotCalled
    /\ volumeLayer = NotCalled
    /\ volumeLayer' = [outcome |-> "returned", value |-> toLayer(volumeBuilt.value)]
    /\ UNCHANGED <<volumeMeta, volumeBuilt, transformVars, osetVars, datasetVars, linkVars, catalogVars, shaderVars, paperVars, catalogHistory, homeVars, paperHistory>>

NextVolume ==
    \/ CallFromVolumeMeta
    \/ CallToLayer

-----------------------------------------------------------------------------
(* Specifications.                                                         *)

\* A volume transform (an axis-label list with a scale and a translate per
\* listed axis), before the call.
InitTransform ==
    /\ \E a \in AxisLists :
           \E s \in [DOMAIN a -> ScaleValues], t \in [DOMAIN a -> TranslateValues] :
               transform = [axes |-> a, scale |-> s, translate |-> t]
    /\ layerTransform = NotCalled
    /\ tags = Idle
    /\ live = Idle
    /\ readded = Idle
    /\ dsInput = Idle
    /\ dataset = Idle
    /\ checkState = Idle
    /\ view = Idle
    /\ linkCall = Idle
    /\ link = Idle
    /\ remote = Idle
    /\ mdPc = Idle
    /\ tasks = Idle
    /\ mdResult = Idle
    /\ shaderInput = Idle
    /\ shaderOut = Idle
    /\ paperViews = Idle
    /\ layerCheckState = Idle
    /\ viewCheckState = Idle
    /\ paperLink = Idle
    /\ settleOrder = Idle
    /\ appState = Idle
    /\ homePc = Idle
    /\ homeClosure = Idle
    /\ slug = Idle
    /\ detailsView = Idle
    /\ paperEvent = Idle
    /\ volumeMeta = Idle
    /\ volumeBuilt = Idle
    /\ volumeLayer = Idle

SpecTransform == InitTransform /\ [][NextTransform]_vars

\* A new, empty OSet.
InitOSet ==
    /\ transform = Idle
    /\ layerTransform = Idle
    /\ tags = OSetNew
    /\ live = {}
    /\ readded = FALSE
    /\ dsInput = Idle
    /\ dataset = Idle
    /\ checkState = Idle
    /\ view = Idle
    /\ linkCall = Idle
    /\ link = Idle
    /\ remote = Idle
    /\ mdPc = Idle
    /\ tasks = Idle
    /\ mdResult = Idle
    /\ shaderInput = Idle
    /\ shaderOut = Idle
    /\ paperViews = Idle
    /\ layerCheckState = Idle
    /\ viewCheckState = Idle
    /\ paperLink = Idle
    /\ settleOrder = Idle
    /\ appState = Idle
    /\ homePc = Idle
    /\ homeClosure = Idle
    /\ slug = Idle
    /\ detailsView = Idle
    /\ paperEvent = Idle
    /\ volumeMeta = Idle
    /\ volumeBuilt = Idle
    /\ volumeLayer = Idle

SpecOSet == InitOSet /\ [][NextOSet]_vars

\* The arguments of a Dataset construction, before the call.
InitDataset ==
    /\ transform = Idle
    /\ layerTransform = Idle
    /\ tags = Idle
    /\ live = Idle
    /\ readded = Idle
    /\ dsInput \in DatasetInputs
    /\ dataset = NotCalled
    /\ checkState = Idle
    /\ view = Idle
    /\ linkCall = Idle
    /\ link = Idle
    /\ remote = Idle
    /\ mdPc = Idle
    /\ tasks = Idle
    /\ mdResult = Idle
    /\ shaderInput = Idle
    /\ shaderOut = Idle
    /\ paperViews = Idle
    /\ layerCheckState = Idle
    /\ viewCheckState = Idle
    /\ paperLink = Idle
    /\ settleOrder = Idle
    /\ appState = Idle
    /\ homePc = Idle
    /\ homeClosure = Idle
    /\ slug = Idle
    /\ detailsView = Idle
    /\ paperEvent = Idle
    /\ volumeMeta = Idle
    /\ volumeBuilt = Idle
    /\ volumeLayer = Idle

SpecDataset == InitDataset /\ [][NextDataset]_vars

\* A check state over the volumes of the dataset and one of its views,
\* before the link is rendered or compiled.
InitLink ==
    /\ transform = Idle
    /\ layerTransform = Idle
    /\ tags = Idle
    /\ live = Idle
    /\ readded = Idle
    /\ dsInput = Idle
    /\ dataset = Idle
    /\ checkState \in [DOMAIN Volumes -> BOOLEAN]
    /\ view \in LinkViews
    /\ linkCall = NotCalled
    /\ link = NotCalled
    /\ remote = Idle
    /\ mdPc = Idle
    /\ tasks = Idle
    /\ mdResult = Idle
    /\ shaderInput = Idle
    /\ shaderOut = Idle
    /\ paperViews = Idle
    /\ layerCheckState = Idle
    /\ viewCheckState = Idle
    /\ paperLink = Idle
    /\ settleOrder = Idle
    /\ appState = Idle
    /\ homePc = Idle
    /\ homeClosure = Idle
    /\ slug = Idle
    /\ detailsView = Idle
    /\ paperEvent = Idle
    /\ volumeMeta = Idle
    /\ volumeBuilt = Idle
    /\ volumeLayer = Idle

SpecLink == InitLink /\ [][NextLink]_vars

\* An endpoint, before makeDatasets is called.
InitCatalog ==
    /\ transform = Idle
    /\ layerTransform = Idle
    /\ tags = Idle
    /\ live = Idle
    /\ readded = Idle
    /\ dsInput = Idle
    /\ dataset = Idle
    /\ checkState = Idle
    /\ view = Idle
    /\ linkCall = Idle
    /\ link = Idle
    /\ remote \in Remotes
    /\ mdPc = "start"
    /\ tasks = <<>>
    /\ mdResult = NoResult
    /\ shaderInput = Idle
    /\ shaderOut = Idle
    /\ paperViews = Idle
    /\ layerCheckState = Idle
    /\ viewCheckState = Idle
    /\ paperLink = Idle
    /\ settleOrder = <<>>
    /\ appState = Idle
    /\ homePc = Idle
    /\ homeClosure = Idle
    /\ slug = Idle
    /\ detailsView = Idle
    /\ paperEvent = Idle
    /\ volumeMeta = Idle
    /\ volumeBuilt = Idle
    /\ volumeLayer = Idle

SpecCatalog == InitCatalog /\ [][NextCatalog]_vars

\* Display settings and a sample type, before makeShader is called.
InitShader ==
    /\ transform = Idle
    /\ layerTransform = Idle
    /\ tags = Idle
    /\ live = Idle
    /\ readded = Idle
    /\ dsInput = Idle
    /\ dataset = Idle
    /\ checkState = Idle
    /\ view = Idle
    /\ linkCall = Idle
    /\ link = Idle
    /\ remote = Idle
    /\ mdPc = Idle
    /\ tasks = Idle
    /\ mdResult = Idle
    /\ shaderInput \in [shaderArgs : DisplaySettingsValues, sampleType : SampleTypes]
    /\ shaderOut = NotCalled
    /\ paperViews = Idle
    /\ layerCheckState = Idle
    /\ viewCheckState = Idle
    /\ paperLink = Idle
    /\ settleOrder = Idle
    /\ appState = Idle
    /\ homePc = Idle
    /\ homeClosure = Idle
    /\ slug = Idle
    /\ detailsView = Idle
    /\ paperEvent = Idle
    /\ volumeMeta = Idle
    /\ volumeBuilt = Idle
    /\ volumeLayer = Idle

SpecShader == InitShader /\ [][NextShader]_vars

\* DatasetPaper mounted for a dataset: the initial check states and the
\* first render.
InitPaper ==
    /\ transform = Idle
    /\ layerTransform = Idle
    /\ tags = Idle
    /\ live = Idle
    /\ readded = Idle
    /\ dsInput = Idle
    /\ dataset = Idle
    /\ checkState = Idle
    /\ view = Idle
    /\ linkCall = Idle
    /\ link = Idle
    /\ remote = Idle
    /\ mdPc = Idle
    /\ tasks = Idle
    /\ mdResult = Idle
    /\ shaderInput = Idle
    /\ shaderOut = Idle
    /\ paperViews \in PaperViewLists
    /\ layerCheckState = LayerCheckStateInit(VolumeKeys, paperViews)
    /\ viewCheckState = ViewCheckStateInit(paperViews)
    /\ paperLink = RenderLink(paperViews, LayerCheckStateInit(VolumeKeys, paperViews),
                              ViewCheckStateInit(paperViews))
    /\ settleOrder = Idle
    /\ appState = Idle
    /\ homePc = Idle
    /\ homeClosure = Idle
    /\ slug = Idle
    /\ detailsView = Idle
    /\ paperEvent = [handler |-> "mount", name |-> Idle, checked |-> FALSE,
                     layerCheckState |-> LayerCheckStateInit(VolumeKeys, paperViews),
                     viewCheckState |-> ViewCheckStateInit(paperViews)]
    /\ volumeMeta = Idle
    /\ volumeBuilt = Idle
    /\ volumeLayer = Idle

SpecPaper == InitPaper /\ [][NextPaper]_vars

\* The application rendered for the first time, with the route of a
\* dataset: the application state before the load, and an endpoint.
InitHome ==
    /\ transform = Idle
    /\ layerTransform = Idle
    /\ tags = Idle
    /\ live = Idle
    /\ readded = Idle
    /\ dsInput = Idle
    /\ dataset = Idle
    /\ checkState = Idle
    /\ view = Idle
    /\ linkCall = Idle
    /\ link = Idle
    /\ remote \in Remotes
    /\ mdPc = "start"
    /\ tasks = <<>>
    /\ mdResult = NoResult
    /\ shaderInput = Idle
    /\ shaderOut = Idle
    /\ paperViews = Idle
    /\ layerCheckState = Idle
    /\ viewCheckState = Idle
    /\ paperLink = Idle
    /\ settleOrder = <<>>
    /\ appState \in [datasets : PreviousMaps, datasetsLoading : BOOLEAN,
                     webGL2Enabled : BOOLEAN]
    /\ homePc = "mounted"
    /\ homeClosure = appState
    /\ slug \in Slugs
    /\ detailsView = DatasetDetails(appState, slug)
    /\ paperEvent = Idle
    /\ volumeMeta = Idle
    /\ volumeBuilt = Idle
    /\ volumeLayer = Idle

SpecHome == InitHome /\ [][NextHome]_vars

\* Every fetch settles in the end (API.index, and API.get of every listed
\* dataset), and the event loop runs every callback that is ready (the
\* effect after the first render, the continuation of makeDatasets after
\* Promise.all, the then-callback of Home): a step of the load that can be
\* taken is taken in the end.
\* (Every step of the load changes one of these variables.)
homeProgress == <<homePc, mdPc, settleOrder, appState>>

FairnessHome == WF_homeProgress(NextHome)

SpecHomeFair == InitHome /\ [][NextHome]_vars /\ FairnessHome

\* The metadata of one volume, as read from its attributes, before
\* fromVolumeMeta is called.
InitVolume ==
    /\ transform = Idle
    /\ layerTransform = Idle
    /\ tags = Idle
    /\ live = Idle
    /\ readded = Idle
    /\ dsInput = Idle
    /\ dataset = Idle
    /\ checkState = Idle
    /\ view = Idle
    /\ linkCall = Idle
    /\ link = Idle
    /\ remote = Idle
    /\ mdPc = Idle
    /\ tasks = Idle
    /\ mdResult = Idle
    /\ shaderInput = Idle
    /\ shaderOut = Idle
    /\ paperViews = Idle
    /\ layerCheckState = Idle
    /\ viewCheckState = Idle
    /\ paperLink = Idle
    /\ settleOrder = Idle
    /\ appState = Idle
    /\ homePc = Idle
    /\ homeClosure = Idle
    /\ slug = Idle
    /\ detailsView = Idle
    /\ paperEvent = Idle
    /\ \E a \in AxisPermutations, d \in DimensionLists,
          sc \in [1..3 -> 1..MaxScale], tr \in [1..3 -> TranslateValues] :
           volumeMeta = [dimensions |-> d,
                         transform |-> [axes |-> a, scale |-> sc, translate |-> tr,
                                        units |-> <<"nm", "nm", "nm">>]]
    /\ volumeBuilt = NotCalled
    /\ volumeLayer = NotCalled

SpecVolume == InitVolume /\ [][NextVolume]_vars

-----------------------------------------------------------------------------
(* Properties of the coordinate transform (SpecTransform).                 *)

\* The row of the 3x4 matrix that belongs to an axis label.
AxisRow(a) == CASE a = "x" -> 1 [] a = "y" -> 2 [] a = "z" -> 3

Returned == layerTransform.outcome = "returned"

MissingLabel == \E a \in AxisLabels : \A i \in DOMAIN transform.axes : transform.axes[i] # a

Sign(n) == IF n < 0 THEN -1 ELSE IF n = 0 THEN 0 ELSE 1

\* C1 as stated: in the row of every axis label a, the diagonal entry is +1
\* or -1 and equals sign(scale[a]), with sign(0) = 0, the other entries of
\* the linear part are 0, and the fourth entry is translate[a]; scale[a] and
\* translate[a] are taken at the position of a in the axis-label list.
C1_DiagonalIsSignOfScale ==
    Returned =>
        \A a \in AxisLabels :
            LET row == layerTransform.value.matrix[AxisRow(a)]
            IN /\ row[AxisRow(a)] \in {Num(1), Num(-1)}
               /\ \A c \in 1..3 : c # AxisRow(a) => row[c] = Num(0)
               /\ \A i \in DOMAIN transform.axes :
                      transform.axes[i] = a =>
                          /\ row[AxisRow(a)] = Num(Sign(transform.scale[i]))
                          /\ row[4] = Num(transform.translate[i])

\* C1 as amended: in the row of every axis label a, the diagonal entry is -1
\* when scale[a] < 0 and +1 otherwise (a zero scale gives +1, so the entry
\* equals sign(scale[a]) for every non-zero scale), the other entries of the
\* linear part are 0, and the fourth entry is translate[a] unchanged.
C1_DiagonalIsMinusOneIffNegative ==
    Returned =>
        \A a \in AxisLabels :
            LET row == layerTransform.value.matrix[AxisRow(a)]
            IN /\ row[AxisRow(a)] \in {Num(1), Num(-1)}
               /\ \A c \in 1..3 : c # AxisRow(a) => row[c] = Num(0)
               /\ \A i \in DOMAIN transform.axes :
                      transform.axes[i] = a =>
                          /\ row[AxisRow(a)] = Num(-1) <=> transform.scale[i] < 0
                          /\ row[4] = Num(transform.translate[i])

\* A transform whose axes are listed z, y, x, with a negative, a zero and a
\* positive scale and a non-zero translate, has been converted.
C1_Witness ==
    /\ Returned
    /\ transform.axes = <<"z", "y", "x">>
    /\ transform.scale = <<-2, 0, 1>>
    /\ transform.translate = <<1, 0, 0>>
    /\ layerTransform.value.matrix[3] = <<Num(0), Num(0), Num(-1), Num(1)>>

\* C2: for every axis label a of the transform, the input coordinate space
\* has unit "m" and size 1e-9 * |scale[a]| for a, whatever the sign of the
\* scale; the size is never negative.
C2_InputSpaceIsAbsScale ==
    Returned =>
        \A a \in AxisLabels : \A i \in DOMAIN transform.axes :
            transform.axes[i] = a =>
                LET dim == layerTransform.value.inputDimensions[a]
                    s == transform.scale[i]
                IN /\ dim[2] = "m"
                   /\ dim[1] = NumE9(IF s < 0 THEN 0 - s ELSE s)
                   /\ dim[1].n >= 0

\* A transform with a negative scale on x has been converted: the x unit is
\* 2e-9 m.
C2_Witness ==
    /\ Returned
    /\ transform.axes = <<"x", "y", "z">>
    /\ transform.scale = <<-2, 2, 1>>
    /\ layerTransform.value.inputDimensions.x = <<NumE9(2), "m">>

\* C3: when the axis-label list lacks one of x, y, z, building the transform
\* ends in an error and returns no transform description.
C3_MissingAxisFails ==
    (layerTransform # NotCalled /\ MissingLabel) => layerTransform.outcome = "threw"

-----------------------------------------------------------------------------
(* Properties of OSet (SpecOSet).                                          *)

ElementPair(e) == <<e.element.value, e.element.category>>

\* C10: however the adds and deletes of tags interleave, the set holds
\* exactly one element for every (value, category) added and not deleted,
\* and none for any other: its size is the number of those pairs.
C10_OneElementPerPair ==
    /\ OSetSize(tags) = Cardinality(live)
    /\ \A p \in live :
           Cardinality({i \in DOMAIN tags : ElementPair(tags[i]) = p}) = 1
    /\ \A i \in DOMAIN tags : ElementPair(tags[i]) \in live

\* A tag that was in the set has been added again, with other tags in the
\* set.
C10_Witness ==
    /\ readded
    /\ OSetSize(tags) >= 2
    /\ Cardinality(live) >= 2

-----------------------------------------------------------------------------
(* Properties of the Dataset constructor (SpecDataset).                    *)

Constructed == dataset.outcome = "returned"

\* C8: every constructed Dataset has at least one view; with an empty input
\* list it has exactly the default view ('Default view', no sources,
\* position and scale undefined); with n >= 1 input views it has n views, in
\* the input order.
C8_AtLeastOneView ==
    Constructed =>
        LET given == dsInput.views.a
            views == dataset.value.views
        IN /\ Len(views) >= 1
           /\ Len(given) = 0 =>
                  /\ Len(views) = 1
                  /\ views[1].name = "Default view"
                  /\ views[1].sources = <<>>
                  /\ views[1].position = Undefined
                  /\ views[1].scale = Undefined
           /\ Len(given) >= 1 =>
                  /\ Len(views) = Len(given)
                  /\ \A i \in DOMAIN given :
                         /\ views[i].name = given[i].name
                         /\ views[i].description = given[i].description
                         /\ views[i].sources = given[i].sources
                         /\ given[i].position.t = "array" =>
                                views[i].position = given[i].position

\* A Dataset has been constructed from an empty view list.
C8_Witness ==
    /\ Constructed
    /\ dsInput.views = Arr(<<>>)
    /\ Len(dataset.value.views) = 1
    /\ dataset.value.views[1].name = "Default view"

\* The values of the tags of a category in the tag set of the dataset.
TagValuesOf(category) ==
    {dataset.value.tags[i].element.value :
        i \in {j \in DOMAIN dataset.value.tags :
                   dataset.value.tags[j].element.category = category}}

\* C9: the lateral voxel size tag is omitted when x and y are both absent;
\* with both present its value is the string of min(x, y); with exactly one
\* present its value is the string of that one.
C9_LateralTagIsMinOrPresent ==
    Constructed =>
        LET x == dsInput.description.imaging.gridSpacing.values.x
            y == dsInput.description.imaging.gridSpacing.values.y
            lateral == TagValuesOf("Lateral voxel size")
        IN /\ (x = Undefined /\ y = Undefined) => lateral = {}
           /\ (x # Undefined /\ y # Undefined) =>
                  lateral = {Str(ToString(IF x.n <= y.n THEN x.n ELSE y.n))}
           /\ (x # Undefined /\ y = Undefined) => lateral = {Str(ToString(x.n))}
           /\ (x = Undefined /\ y # Undefined) => lateral = {Str(ToString(y.n))}

\* The categories of the list fields of the description.
ListCategories ==
    {"Contributing institution", "Sample: Organism", "Sample: Type",
     "Sample: Subtype", "Sample: Treatment"}

\* The list field of the description a category is made from.
ListFieldOf(descr, category) ==
    CASE category = "Contributing institution" -> descr.institution
      [] category = "Sample: Organism" -> descr.sample.organism
      [] category = "Sample: Type" -> descr.sample.type
      [] category = "Sample: Subtype" -> descr.sample.subtype
      [] category = "Sample: Treatment" -> descr.sample.treatment

\* The number of tags of a category in the tag set of the dataset.
TagCountOf(category) ==
    Cardinality({j \in DOMAIN dataset.value.tags :
                    dataset.value.tags[j].element.category = category})

\* C11: for each of the list fields institution, sample.organism,
\* sample.type, sample.subtype and sample.treatment, the tag set holds
\* exactly one tag of the field's category per distinct entry of the list
\* and no other tag of that category; an empty list gives no tag of its
\* category.
C11_OneTagPerDistinctEntry ==
    Constructed =>
        \A c \in ListCategories :
            LET list == ListFieldOf(dsInput.description, c)
                entries == {list[i] : i \in DOMAIN list}
            IN /\ TagValuesOf(c) = entries
               /\ TagCountOf(c) = Cardinality(entries)
               /\ list = <<>> => TagCountOf(c) = 0

\* A Dataset has been constructed from a description whose organism list
\* names the same organism twice and whose type list is empty: one
\* organism tag, no type tag.
C11_Witness ==
    /\ Constructed
    /\ dsInput.description.sample.organism = <<Str("2"), Str("2")>>
    /\ dsInput.description.sample.type = <<>>
    /\ TagCountOf("Sample: Organism") = 1
    /\ TagCountOf("Sample: Type") = 0

-----------------------------------------------------------------------------
(* Properties of the link (SpecLink).                                      *)

Compiled == link.outcome = "returned"

\* C6: no viewer state with an empty layer list or with a selected layer
\* that has no name is ever produced: the compiler called with no layer
\* ends in an error, and the link component rendered with no checked volume
\* shows "No layers selected" and compiles nothing.
C6_EmptySelectionRefused ==
    /\ Compiled =>
           /\ Len(link.vState.layers) >= 1
           /\ link.vState.selectedLayer.layer # Undefined
           /\ link.vState.selectedLayer.layer = link.vState.layers[1].name
    /\ (linkCall # NotCalled /\ linkCall.kind = "makeNeuroglancerViewerState"
            /\ linkCall.layers = <<>>) => link.outcome = "threw"
    /\ (linkCall # NotCalled /\ linkCall.kind = "NeuroglancerLink"
            /\ \A k \in DOMAIN checkState : ~checkState[k]) =>
           link.outcome = "noLayersSelected"

\* The compiler has been called with an empty list of layers.
C6_Witness ==
    /\ linkCall # NotCalled
    /\ linkCall.kind = "makeNeuroglancerViewerState"
    /\ linkCall.layers = <<>>
    /\ link.outcome = "threw"

C13_CameraFromView ==
    Compiled =>
        /\ link.vState.position = view.position
        /\ link.vState.crossSectionOrientation = view.orientation
        /\ view.scale # Undefined => link.vState.crossSectionScale = view.scale
        /\ view.scale = Undefined => link.vState.crossSectionScale = Num(50)
        /\ link.vState.projectionScale = Num(65536)

\* C15: for every non-empty list of layers the compiler is called with, a
\* viewer state is produced whose selected-layer marker names the first
\* layer of the list (layers[0].name) and is marked visible.
C15_FirstLayerSelected ==
    /\ (linkCall # NotCalled /\ linkCall.kind = "makeNeuroglancerViewerState"
            /\ Len(linkCall.layers) >= 1) =>
           /\ link.outcome = "returned"
           /\ link.vState.selectedLayer =
                  [layer |-> linkCall.layers[1].name, visible |-> TRUE]
    /\ Compiled =>
           link.vState.selectedLayer =
               [layer |-> link.vState.layers[1].name, visible |-> TRUE]

\* The compiler has been called with the segmentation layer before the EM
\* layer: the selected layer is the segmentation.
C15_Witness ==
    /\ Compiled
    /\ linkCall.kind = "makeNeuroglancerViewerState"
    /\ Len(linkCall.layers) = 2
    /\ linkCall.layers[1].name = Str("seg")
    /\ linkCall.layers[2].name = Str("em")
    /\ link.vState.selectedLayer = [layer |-> Str("seg"), visible |-> TRUE]

-----------------------------------------------------------------------------
(* Properties of makeDatasets (SpecCatalog).                               *)

Finished == mdPc \in {"returned", "rejected"}

\* The datasets of the index whose fetch and construction succeed.
SoundKeys ==
    {DatasetKey(i) : i \in {j \in DOMAIN remote.entries :
                                remote.entries[j] \in {"plain", "withView"}}}

\* C4: when the fetch or the construction of one dataset of the index
\* fails, makeDatasets does not fail: it returns a map that holds every
\* dataset whose fetch and construction succeeded and omits the failing one.
C4_FailingEntryOmitted ==
    (remote.index = "ok" /\ Finished) =>
        /\ mdPc = "returned"
        /\ MapKeys(mdResult) = SoundKeys

\* C5: when the fetch of the index fails, makeDatasets completes normally
\* with an empty map; no per-dataset fetch is ever started.
C5_IndexFailureGivesEmptyMap ==
    remote.index = "fails" =>
        /\ tasks = <<>>
        /\ mdPc # "rejected"
        /\ mdPc \notin {"start", "awaitIndex"} =>
               /\ mdPc = "returned"
               /\ mdResult = <<>>

\* The index fetch has failed and makeDatasets has returned.
C5_Witness ==
    /\ remote.index = "fails"
    /\ mdPc = "returned"
    /\ mdResult = <<>>

\* The entries of the index, each with the Dataset built from its answer, in
\* the order of the index: a function of the endpoint alone.
EntriesOfIndex ==
    [i \in DOMAIN remote.entries |->
        EntryPromise(DatasetKey(i), remote.entries[i]).value]

\* C16: the map makeDatasets returns (its key set and the Dataset bound to
\* each key) is decided by the index and the answers of the endpoint, and
\* so is the same for every order in which the per-dataset fetches
\* complete.
C16_MapIndependentOfSettleOrder ==
    (remote.index = "ok" /\ mdPc = "returned") =>
        /\ MapKeys(mdResult) = {DatasetKey(i) : i \in DOMAIN remote.entries}
        /\ \A i \in DOMAIN remote.entries :
               \E e \in DOMAIN mdResult : mdResult[e] = EntriesOfIndex[i]
        /\ Len(mdResult) = Len(remote.entries)

\* makeDatasets has returned the map of three datasets whose fetches
\* completed last to first.
C16_Witness ==
    /\ mdPc = "returned"
    /\ Len(remote.entries) = 3
    /\ settleOrder = <<3, 2, 1>>
    /\ MapKeys(mdResult) = {"d1", "d2", "d3"}

-----------------------------------------------------------------------------
(* Properties of makeShader (SpecShader).                                  *)

\* C12: makeShader is total: for every sample type and every display
\* settings it returns without throwing; it returns a non-empty shader
\* program for 'scalar', the empty program for 'label', and undefined for
\* every other sample type.
C12_MakeShaderTotal ==
    shaderOut # NotCalled =>
        /\ shaderOut.outcome = "returned"
        /\ shaderInput.sampleType = "scalar" =>
               (shaderOut.value.t = "string" /\ shaderOut.value.s # "")
        /\ shaderInput.sampleType = "label" => shaderOut.value = Str("")
        /\ shaderInput.sampleType \notin {"scalar", "label"} =>
               shaderOut.value = Undefined

-----------------------------------------------------------------------------
(* Properties of DatasetPaper and its link (SpecPaper).                    *)

\* The keys of a check state that are checked and belong to the volumes of
\* the dataset, in the iteration order of the check state.
SelectedInOrder(state) ==
    LET chosen(e) == e[2] /\ e[1] \in DOMAIN Volumes
        sel == SelectSeq(state, chosen)
    IN [i \in 1..Len(sel) |-> sel[i][1]]

ResolvedKeys(v) == {v.sources[i] : i \in DOMAIN v.sources} \cap DOMAIN Volumes

\* C19: a view that lists a volume key the dataset lacks is tolerated: no
\* render of the link ends in an error, a key the dataset lacks is never
\* among the keys compiled into the link, and when a view is selected every
\* key it lists that the dataset has is selected and compiled.
C19_UnresolvedKeyTolerated ==
    /\ [](/\ paperLink.result.outcome # "threw"
          /\ \A i \in DOMAIN paperLink.volumeKeys :
                 paperLink.volumeKeys[i] \in DOMAIN Volumes)
    /\ [][viewCheckState' # viewCheckState =>
              /\ paperLink'.view = paperViews[FindIndexTrue(viewCheckState') + 1]
              /\ \A k \in ResolvedKeys(paperLink'.view) :
                     /\ \E e \in DOMAIN layerCheckState' :
                            layerCheckState'[e] = <<k, TRUE>>
                     /\ \E i \in DOMAIN paperLink'.volumeKeys :
                            paperLink'.volumeKeys[i] = k]_vars

\* The second view, which lists a key the dataset lacks and then k2, has
\* been selected: the check state holds that key, checked, and the link
\* compiles k2 alone.
C19_Witness ==
    /\ viewCheckState = <<FALSE, TRUE>>
    /\ paperLink.view.sources = <<"k9", "k2">>
    /\ \E e \in DOMAIN paperLink.checkState : paperLink.checkState[e] = <<"k9", TRUE>>
    /\ paperLink.volumeKeys = <<"k2">>
    /\ paperLink.result.outcome = "returned"

-----------------------------------------------------------------------------
(* Properties of the application state and its readers (SpecHome).         *)

\* The keys of the index of the load.
KeysOfLoad == {DatasetKey(i) : i \in DOMAIN remote.entries}

\* C17: in every state a reader of the application state can see, during
\* and after a load, the datasets map is the whole previous map or the
\* whole map makeDatasets returned, never one that holds only some of the
\* datasets of the load; while the load runs the state is marked loading,
\* and the new map comes with datasetsLoading = false in one update.
C17_CatalogSwapIsAtomic ==
    /\ \/ appState.datasets = homeClosure.datasets
       \/ (mdPc = "returned" /\ appState.datasets = mdResult)
    /\ (MapKeys(appState.datasets) \cap KeysOfLoad # {}) =>
           KeysOfLoad \subseteq MapKeys(appState.datasets)
    /\ homePc = "loading" =>
           (appState.datasets = homeClosure.datasets /\ appState.datasetsLoading)
    /\ homePc = "done" =>
           (appState.datasets = mdResult /\ ~appState.datasetsLoading)

\* A load of two datasets, settled second first, has replaced the map of an
\* earlier load.
C17_Witness ==
    /\ homePc = "done"
    /\ MapKeys(homeClosure.datasets) = {"d0"}
    /\ settleOrder = <<2, 1>>
    /\ MapKeys(appState.datasets) = {"d1", "d2"}
    /\ ~appState.datasetsLoading

\* C18: DatasetDetails shows the loading state whenever datasetsLoading is
\* true, the not-found state whenever loading is false and the key is not
\* in the datasets map, and the detail view only when loading is false and
\* the key is in the map.
C18_DetailsViewFollowsState ==
    /\ appState.datasetsLoading => detailsView = "loading"
    /\ (~appState.datasetsLoading /\ slug \notin MapKeys(appState.datasets)) =>
           detailsView = "notFound"
    /\ (~appState.datasetsLoading /\ slug \in MapKeys(appState.datasets)) =>
           detailsView = "detail"
    /\ detailsView = "detail" =>
           (~appState.datasetsLoading /\ slug \in MapKeys(appState.datasets))

\* The route asks for a dataset of an earlier load that the finished load
\* no longer has: the not-found state is shown.
C18_Witness ==
    /\ homePc = "done"
    /\ slug = "d0"
    /\ "d0" \in MapKeys(homeClosure.datasets)
    /\ "d0" \notin MapKeys(appState.datasets)
    /\ detailsView = "notFound"

\* ---------------------------------------------------------------------
\* C21. Starting from a state in which at least one layer is checked, a
\* layer-checkbox event handled by handleLayerChange never leaves the held
\* layerCheckState with every layer unchecked, and an event that would
\* uncheck the last checked layer leaves the held check state as it was
\* before the event.
SomeLayerChecked(state) == \E i \in DOMAIN state : state[i][2]

C21_LastCheckedLayerStays ==
    (/\ paperEvent.handler = "handleLayerChange"
     /\ SomeLayerChecked(paperEvent.layerCheckState))
        => /\ SomeLayerChecked(layerCheckState)
           /\ (~SomeLayerChecked(MapSet(paperEvent.layerCheckState,
                                        paperEvent.name, paperEvent.checked))
                   => layerCheckState = paperEvent.layerCheckState)

\* ---------------------------------------------------------------------
\* C22. A view change event with checked = true for view i sets the view
\* check state to true at i only and resets the layer check state so that
\* a volume of the dataset is checked exactly when its key is in the key
\* list of view i, whatever layer boxes had been toggled before; an event
\* with checked = false leaves both check states as they were.
LayerChecked(state, k) == \E i \in DOMAIN state : state[i] = <<k, TRUE>>

SelectedViews == {i \in DOMAIN viewCheckState : viewCheckState[i]}

C23_ExactlyOneViewSelected ==
    /\ DOMAIN viewCheckState = DOMAIN paperViews
    /\ Cardinality(SelectedViews) = 1
    /\ paperEvent.handler = "mount" => viewCheckState[1]
    /\ FindIndexTrue(viewCheckState) + 1 \in DOMAIN paperViews
    /\ paperLink.view = paperViews[FindIndexTrue(viewCheckState) + 1]
    /\ paperLink.view # Undefined

\* The second of two different views was selected and a layer box was
\* toggled afterwards; the link is given the second view.
C23_Witness ==
    /\ Len(paperViews) = 2
    /\ paperViews[1] # paperViews[2]
    /\ viewCheckState = <<FALSE, TRUE>>
    /\ paperEvent.handler = "handleLayerChange"
    /\ paperEvent.viewCheckState = <<FALSE, TRUE>>
    /\ paperLink.view = paperViews[2]

-----------------------------------------------------------------------------
(* Properties of the older metadata reader (SpecVolume).                   *)

\* C24. For every order of the labels x, y, z in volumeMeta.transform.axes
\* the dimensions, origin and gridSpacing of the Volume fromVolumeMeta
\* builds are in the viewer's order: position 0 holds the value the
\* metadata gives for axis x, position 1 the value for y, position 2 the
\* value for z.
C24_ReorderedToViewerOrder ==
    volumeBuilt # NotCalled =>
        \A i \in DOMAIN volumeMeta.transform.axes :
            LET a == volumeMeta.transform.axes[i]
                pos == axisOrder[a] + 1
            IN /\ volumeBuilt.value.dimensions[pos] = volumeMeta.dimensions[i]
               /\ volumeBuilt.value.origin[pos] = volumeMeta.transform.translate[i]
               /\ volumeBuilt.value.gridSpacing[pos] = volumeMeta.transform.scale[i]

-----------------------------------------------------------------------------
(* Properties of the load under fair scheduling (SpecHomeFair).            *)

\* The load has run to its end: every fetch has settled and no callback of
\* the load is left to run.  Under FairnessHome every behaviour reaches
\* such a state and stays in it.
LoadQuiescent ==
    /\ homePc # "mounted"
    /\ mdPc \in {"returned", "rejected"}
    /\ \A i \in DOMAIN tasks : tasks[i].status # "pending"
    /\ ~(homePc = "loading" /\ mdPc = "returned")

\* C25. Once Home has set datasetsLoading to true and started makeDatasets,
\* and every fetch settles in the end, datasetsLoading becomes false again:
\* also when the index fetch fails, and when the manifest fetch or the
\* construction of one dataset fails.  Stated on the end of the load: when
\* all fetches have settled and every ready callback has run,
\* datasetsLoading is false.
C25_LoadingEnds == LoadQuiescent => ~appState.datasetsLoading

\* C26. The state update made when makeDatasets completes changes only the
\* datasets and datasetsLoading fields of the application state: a field
\* another consumer changed since the load began keeps the changed value.
C26_CompletionKeepsOtherFields ==
    [][(homePc = "loading" /\ homePc' = "done")
          => appState'.webGL2Enabled = appState.webGL2Enabled]_vars

=========================================================================
